---- MODULE Spec2Model ----
(***************************************************************************)
(* The execution coordinator of dago: the orchestrator Manager             *)
(* (internal/application/orchestrator/manager.go), its graph Validator     *)
(* (validator.go), the state store (Redis adapter: one JSON document per   *)
(* execution, read and written whole) and the Redis Streams event bus     *)
(* (one reader goroutine per subscription, messages handled one by one).   *)
(*                                                                         *)
(* Every store call and every bus call is one step of the goroutine that   *)
(* makes it; the computation between two calls belongs to the step that    *)
(* ends with the next call.  Timestamps are modelled as set / not set.     *)
(***************************************************************************)
EXTENDS Integers, Sequences, FiniteSets, Bags, TLC

(***************************************************************************)
(* Bounds of the model.                                                    *)
(***************************************************************************)
\* executions minted in one run (uuid.New is modelled as the next unused id)
MaxExec == 1
\* events of the environment in one run of the whole system: completion
\* envelopes the workers publish, CancelExecution calls, store or bus calls that fail
MaxEnv == 2
\* the same, in a run where nobody cancels and the deadline is far away
MaxPipelineEnv == 3
\* completion envelopes published on node.completed and not yet read
MaxStream == 1
\* goroutines of the in-memory bus that run the completion handler at once
MaxHandlers == 2

\* edges of a graph given to findNextNode on its own
MaxEdges == 2
\* GraphState structs on the heap of a client of the in-memory store
MaxRecords == 3
\* calls of Start and Stop on one HealthMonitor
MaxCalls == 6

ExecIds == 1 .. MaxExec

(***************************************************************************)
(* Topics (manager.go:17-22) and the values of domain.ExecutionStatus.     *)
(***************************************************************************)
TopicExecutorWork == "executor.work"
TopicRouterWork == "router.work"
TopicGraphEvents == "graph.events"

Pending == "pending"
Running == "running"
Completed == "completed"
Failed == "failed"
Cancelled == "cancelled"

TerminalStatuses == {Completed, Failed, Cancelled}

IsTerminal(status) == status \in TerminalStatuses

(***************************************************************************)
(* Graphs.  A node carries its type and whether its own Validate hook      *)
(* accepts it; edges are an ordered sequence; entry "" means no entry      *)
(* node.  The catalogue holds the graphs the clients submit in the model.  *)
(***************************************************************************)
Node(type) == [type |-> type, ok |-> TRUE]
BadNode(type) == [type |-> type, ok |-> FALSE]
Edge(from, to) == [from |-> from, to |-> to]

A == "A"
B == "B"
C == "C"

Graphs ==
  [ linear   |-> [id |-> "g", version |-> "1", entry |-> A,
                  nodes |-> (A :> Node("start") @@ B :> Node("executor") @@ C :> Node("end")),
                  edges |-> <<Edge(A, B), Edge(B, C)>>],
    chain    |-> [id |-> "g", version |-> "1", entry |-> A,
                  nodes |-> (A :> Node("executor") @@ B :> Node("executor")),
                  edges |-> <<Edge(A, B)>>],
    routed   |-> [id |-> "g", version |-> "1", entry |-> A,
                  nodes |-> (A :> Node("router") @@ B :> Node("executor") @@ C :> Node("executor")),
                  edges |-> <<Edge(A, B), Edge(A, C)>>],
    endonly  |-> [id |-> "g", version |-> "1", entry |-> A,
                  nodes |-> (A :> Node("end")),
                  edges |-> <<>>],
    cycle    |-> [id |-> "g", version |-> "1", entry |-> A,
                  nodes |-> (A :> Node("executor") @@ B :> Node("executor")),
                  edges |-> <<Edge(A, B), Edge(B, A)>>],
    startonly |-> [id |-> "g", version |-> "1", entry |-> A,
                  nodes |-> (A :> Node("start")),
                  edges |-> <<>>],
    startloop |-> [id |-> "g", version |-> "1", entry |-> A,
                  nodes |-> (A :> Node("start") @@ B :> Node("start")),
                  edges |-> <<Edge(A, B), Edge(B, A)>>],
    noentry  |-> [id |-> "g", version |-> "1", entry |-> "",
                  nodes |-> (A :> Node("executor")),
                  edges |-> <<>>],
    noid     |-> [id |-> "", version |-> "1", entry |-> A,
                  nodes |-> (A :> Node("executor")),
                  edges |-> <<>>],
    noversion |-> [id |-> "g", version |-> "", entry |-> A,
                  nodes |-> (A :> Node("executor")),
                  edges |-> <<>>],
    nonodes  |-> [id |-> "g", version |-> "1", entry |-> "",
                  nodes |-> <<>>,
                  edges |-> <<>>],
    emptykey |-> [id |-> "g", version |-> "1", entry |-> A,
                  nodes |-> (A :> Node("executor") @@ "" :> Node("executor")),
                  edges |-> <<>>],
    badnode  |-> [id |-> "g", version |-> "1", entry |-> A,
                  nodes |-> (A :> Node("executor") @@ B :> BadNode("executor")),
                  edges |-> <<Edge(A, B)>>],
    badentry |-> [id |-> "g", version |-> "1", entry |-> C,
                  nodes |-> (A :> Node("executor") @@ B :> Node("executor")),
                  edges |-> <<Edge(A, B)>>],
    badfrom  |-> [id |-> "g", version |-> "1", entry |-> A,
                  nodes |-> (A :> Node("executor") @@ B :> Node("executor")),
                  edges |-> <<Edge(A, B), Edge(C, B)>>],
    badto    |-> [id |-> "g", version |-> "1", entry |-> A,
                  nodes |-> (A :> Node("executor") @@ B :> Node("executor")),
                  edges |-> <<Edge(A, B), Edge(B, C)>>] ]

GraphNames == DOMAIN Graphs

NodeIds(g) == DOMAIN g.nodes

(***************************************************************************)
(* Validator.Validate: the first violation found, "" when the graph is     *)
(* admitted.  The order is that of the code: top-level fields, nodes,      *)
(* entry node, edges (each edge's source before its target).               *)
(***************************************************************************)
validateNode(nodeID, node) ==
  IF nodeID = "" THEN "node ID is required"
  ELSE IF ~node.ok THEN "node invalid"
  ELSE ""

RECURSIVE validateEdges(_, _)
validateEdges(g, i) ==
  IF i > Len(g.edges) THEN ""
  ELSE IF g.edges[i].from \notin NodeIds(g) THEN "edge references non-existent source node"
  ELSE IF g.edges[i].to \notin NodeIds(g) THEN "edge references non-existent target node"
  ELSE validateEdges(g, i + 1)

(***************************************************************************)
(* A validator that forgets the edges.                                     *)
(***************************************************************************)
ValidateSkippingEdges(g) ==
  IF g.id = "" THEN "graph ID is required"
  ELSE IF g.version = "" THEN "graph version is required"
  ELSE IF NodeIds(g) = {} THEN "graph must have at least one node"
  ELSE IF \E n \in NodeIds(g) : validateNode(n, g.nodes[n]) # ""
    THEN "invalid node"
  ELSE IF g.entry # "" /\ g.entry \notin NodeIds(g) THEN "entry node not found in graph"
  ELSE ""

Validate(g) ==
  IF g.id = "" THEN "graph ID is required"
  ELSE IF g.version = "" THEN "graph version is required"
  ELSE IF NodeIds(g) = {} THEN "graph must have at least one node"
  ELSE IF \E n \in NodeIds(g) : validateNode(n, g.nodes[n]) # ""
    THEN "invalid node"
  ELSE IF g.entry # "" /\ g.entry \notin NodeIds(g) THEN "entry node not found in graph"
  ELSE validateEdges(g, 1)

(***************************************************************************)
(* Manager.findNextNode: the target of the first edge, in edges order,     *)
(* that leaves the node; "" when none does.                                *)
(***************************************************************************)
RECURSIVE firstEdgeFrom(_, _, _)
firstEdgeFrom(edges, i, nodeID) ==
  IF i > Len(edges) THEN ""
  ELSE IF edges[i].from = nodeID THEN edges[i].to
  ELSE firstEdgeFrom(edges, i + 1, nodeID)

\* the target of the last edge, in edges order, that leaves the node
RECURSIVE lastEdgeFrom(_, _, _)
lastEdgeFrom(edges, i, nodeID) ==
  IF i < 1 THEN ""
  ELSE IF edges[i].from = nodeID THEN edges[i].to
  ELSE lastEdgeFrom(edges, i - 1, nodeID)

findNextNodeLastEdge(g, currentNodeID) == lastEdgeFrom(g.edges, Len(g.edges), currentNodeID)

findNextNode(g, currentNodeID) == firstEdgeFrom(g.edges, 1, currentNodeID)

(***************************************************************************)
(* State.                                                                  *)
(*   store       the state store: one record per execution id              *)
(*   executions  the keys of Manager.executions (sync.Map)                 *)
(*   execStatus  executionContext.status of each execution                 *)
(*   ctxState    the context made by context.WithTimeout for the monitor   *)
(*   mu          the holder of executionContext.mu                         *)
(*   th          the goroutines: SubmitGraph and monitorExecution of each  *)
(*               execution, the stream reader running handleNodeCompleted, *)
(*               the caller of CancelExecution                             *)
(*   stream      node.completed: envelopes published and not yet read      *)
(*   work        envelopes published on executor.work and router.work (bag)*)
(*   events      envelopes published on graph.events (a bag)               *)
(*   nextId      execution ids minted so far                               *)
(*   lastSubmit  the graph and the validation outcome of the last Submit   *)
(*   used        events of the environment so far (bounds the run)         *)
(*   cancels     calls of CancelExecution so far                           *)
(*   call        a call of a function of the manager on its own: the       *)
(*               arguments and, once it has returned, the result           *)
(*   mctx        Manager.ctx, the context of the subscription              *)
(*   mem         the in-memory store and the records its caller holds      *)
(*   hm          a HealthMonitor of the worker pool and its goroutines     *)
(***************************************************************************)
VARIABLES store, executions, execStatus, ctxState, mu, th, stream, work, events,
          nextId, lastSubmit, used, cancels, call, mctx, mem, hm

\* what the manager's own actions leave alone: a call of a function on its
\* own, the context of the subscription, the in-memory store, the health monitor
aux == <<call, mctx, mem, hm>>

vars == <<store, executions, execStatus, ctxState, mu, th, stream, work, events,
          nextId, lastSubmit, used, cancels, aux>>

NoRecord == [status |-> "absent"]

NoEvent == [e |-> 0, node |-> "", hasError |-> FALSE, error |-> "", output |-> "", next |-> "",
            late |-> FALSE]

NoThread == <<"none", 0>>

SubmitThread(e) == <<"submit", e>>
MonitorThread(e) == <<"monitor", e>>
HandlerThread == <<"handler", 0>>
CancelThread == <<"cancel", 0>>
ShutdownThread == <<"shutdown", 0>>

\* the goroutines that run handleNodeCompleted: the reader of the stream, or
\* the goroutines the in-memory bus starts, one for each Publish
HandlerThreads == {<<"handler", i>> : i \in 0 .. MaxHandlers - 1}

Threads ==
  {SubmitThread(e) : e \in ExecIds} \cup {MonitorThread(e) : e \in ExecIds}
    \cup HandlerThreads \cup {CancelThread, ShutdownThread}

Idle == [pc |-> "idle", e |-> 0, state |-> NoRecord, node |-> "", ev |-> NoEvent,
         err |-> "", res |-> ""]

Exists(e) == store[e] # NoRecord

\* Shutdown has returned (manager.go:524-525)
ShutdownReturned == th[ShutdownThread].pc = "done"

GraphOf(state) == Graphs[state.graph]

(***************************************************************************)
(* A store or bus call succeeds or fails; a failure is an event of the     *)
(* environment, of which a run has at most max.                            *)
(***************************************************************************)
Outcomes(max) == IF used < max THEN BOOLEAN ELSE {TRUE}

Fault(ok) == used' = IF ok THEN used ELSE used + 1

(***************************************************************************)
(* SubmitGraph, manager.go:104-120: the initial record.                    *)
(***************************************************************************)
\* a node state that starts as Running
InitialNodeStateRunning == [status |-> Running, started_at |-> TRUE, completed_at |-> FALSE,
                            output |-> "", error |-> ""]

InitialNodeState == [status |-> Pending, started_at |-> FALSE, completed_at |-> FALSE,
                     output |-> "", error |-> ""]

InitialStatus == Running

InitialState(gname) ==
  [graph |-> gname, status |-> InitialStatus, completed_at |-> FALSE, error |-> "",
   nodes |-> [n \in NodeIds(Graphs[gname]) |-> InitialNodeState]]

(***************************************************************************)
(* The end of a call of publishNodeWork or completeGraph: what its caller  *)
(* does with the result.  SubmitGraph returns the id whether dispatch      *)
(* failed or not (manager.go:156-164); handleNodeCompleted returns nil     *)
(* (manager.go:248-255 and 226-227, 243-244), so the reader acknowledges   *)
(* the message and takes the next one; handleTimeout returns.  The         *)
(* goroutine of the handler keeps what the handler returned.               *)
(***************************************************************************)
HandlerReturned(result) == [Idle EXCEPT !.res = result]

Return(t, thr) ==
  IF t[1] = "submit" THEN [Idle EXCEPT !.pc = "done", !.e = thr.e, !.res = "ok"]
  ELSE IF t[1] = "monitor" THEN [Idle EXCEPT !.pc = "done", !.e = thr.e]
  ELSE HandlerReturned("nil")

(***************************************************************************)
(* publishNodeWork up to its SaveState (manager.go:270-282): a node that   *)
(* is not in the graph ends the call with an error; otherwise the node     *)
(* state of the caller's copy becomes Running with started_at set.         *)
(***************************************************************************)
\* a dispatch that takes a node of the graph when it is given none
EnterPublishNodeWorkDefaulting(t, thr, nodeID) ==
  LET ids == NodeIds(GraphOf(thr.state))
      n == IF nodeID \in ids THEN nodeID ELSE CHOOSE m \in ids : TRUE
  IN [thr EXCEPT !.pc = "pnw_save", !.node = n,
                 !.state.nodes[n].status = Running,
                 !.state.nodes[n].started_at = TRUE]

EnterPublishNodeWork(t, thr, nodeID) ==
  IF nodeID \notin NodeIds(GraphOf(thr.state)) THEN Return(t, thr)
  ELSE [thr EXCEPT !.pc = "pnw_save", !.node = nodeID,
                   !.state.nodes[nodeID].status = Running,
                   !.state.nodes[nodeID].started_at = TRUE]

(***************************************************************************)
(* completeGraph up to its SaveState (manager.go:344-350).                 *)
(***************************************************************************)
EnterCompleteGraph(thr, status, errorMsg) ==
  [thr EXCEPT !.pc = "cg_save", !.err = errorMsg,
              !.state.status = status,
              !.state.completed_at = TRUE,
              !.state.error = IF errorMsg # "" THEN errorMsg ELSE @]

(***************************************************************************)
(* NewInMemoryStateStorage, storage/memory/memory.go:21-25: an empty map.  *)
(* The heap is part of the picture: structs holds the GraphState structs   *)
(* (an address is an index), maps the NodeStates maps with the NodeState   *)
(* values their pointers lead to; states maps an id to the address of the  *)
(* stored struct, 0 for none; held are the addresses the caller has.       *)
(***************************************************************************)
NewInMemoryStateStorage ==
  [structs |-> <<>>, maps |-> <<>>, states |-> [e \in ExecIds |-> 0], held |-> {}]

(***************************************************************************)
(* NewHealthMonitor, workers (part_001:32-39): not running, a stop channel *)
(* that is open.  loops counts the goroutines inside run, calls is the     *)
(* history of the calls made on the monitor.                               *)
(***************************************************************************)
NewHealthMonitor ==
  [running |-> FALSE, stopCh |-> "open", loops |-> 0, panicked |-> FALSE, calls |-> <<>>]

ManagerInit ==
  /\ store = [e \in ExecIds |-> NoRecord]
  /\ executions = {}
  /\ execStatus = [e \in ExecIds |-> "none"]
  /\ ctxState = [e \in ExecIds |-> "none"]
  /\ mu = [e \in ExecIds |-> NoThread]
  /\ th = [t \in Threads |-> Idle]
  /\ stream = <<>>
  /\ work = EmptyBag
  /\ events = EmptyBag
  /\ nextId = 0
  /\ lastSubmit = [g |-> "", err |-> ""]
  /\ used = 0
  /\ cancels = 0
  /\ mctx = "active"
  /\ mem = NewInMemoryStateStorage
  /\ hm = NewHealthMonitor

NoCall == [fn |-> "", done |-> FALSE]

Init == ManagerInit /\ call = NoCall

(***************************************************************************)
(* SubmitGraph, manager.go:91-128: validation fails, nothing else happens. *)
(***************************************************************************)
SubmitRejected(gname) ==
  /\ Validate(Graphs[gname]) # ""
  /\ nextId < MaxExec
  /\ lastSubmit' = [g |-> gname, err |-> Validate(Graphs[gname])]
  /\ UNCHANGED <<store, executions, execStatus, ctxState, mu, th, stream, work, events,
                 nextId, used, cancels, aux>>

(***************************************************************************)
(* SubmitGraph, manager.go:91-128: the graph is admitted, an id is minted, *)
(* the initial record is built and saved; a failed save ends the call.     *)
(***************************************************************************)
SubmitGraph(gname, ok) ==
  LET e == nextId + 1
      t == SubmitThread(e)
  IN /\ Validate(Graphs[gname]) = ""
     /\ nextId < MaxExec
     /\ nextId' = e
     /\ lastSubmit' = [g |-> gname, err |-> ""]
     /\ Fault(ok)
     /\ IF ok
          THEN /\ store' = [store EXCEPT ![e] = InitialState(gname)]
               /\ th' = [th EXCEPT ![t] = [Idle EXCEPT !.pc = "s_event", !.e = e,
                                                       !.state = InitialState(gname)]]
          ELSE /\ store' = store
               /\ th' = [th EXCEPT ![t] = [Idle EXCEPT !.pc = "done", !.e = e,
                                                       !.res = "save_error"]]
     /\ UNCHANGED <<executions, execStatus, ctxState, mu, stream, work, events, cancels, aux>>

(***************************************************************************)
(* SubmitGraph, manager.go:130-156: publish GraphSubmitted (a failed       *)
(* publish ends the call with the error); then the tracker entry, the      *)
(* deadline context and its monitor goroutine, and publishNodeWork for     *)
(* the entry node up to its first store call.                              *)
(***************************************************************************)
SubmitPublishEvent(e, ok) ==
  LET t == SubmitThread(e)
  IN /\ th[t].pc = "s_event"
     /\ Fault(ok)
     /\ IF ok
          THEN /\ events' = events (+) SetToBag({[e |-> e, type |-> "graph.submitted", error |-> ""]})
               /\ executions' = executions \cup {e}
               /\ execStatus' = [execStatus EXCEPT ![e] = Running]
               /\ ctxState' = [ctxState EXCEPT ![e] = "active"]
               /\ th' = [th EXCEPT ![t] = EnterPublishNodeWork(t, th[t], GraphOf(th[t].state).entry),
                                   ![MonitorThread(e)] = [Idle EXCEPT !.pc = "wait", !.e = e]]
          ELSE /\ th' = [th EXCEPT ![t] = [Idle EXCEPT !.pc = "done", !.e = e,
                                                       !.res = "publish_error"]]
               /\ UNCHANGED <<events, executions, execStatus, ctxState>>
     /\ UNCHANGED <<store, mu, stream, work, nextId, lastSubmit, cancels, aux>>

(***************************************************************************)
(* publishNodeWork, manager.go:282-308: SaveState of the caller's copy (a  *)
(* failure is logged and ignored), then the branch on the node type.  An   *)
(* end node completes the graph; a start node (the default branch) goes    *)
(* on with the first successor, or returns when there is none.             *)
(***************************************************************************)
AfterNodeSaved(t, thr) ==
  LET g == GraphOf(thr.state)
      type == g.nodes[thr.node].type
      nextNode == findNextNode(g, thr.node)
  IN IF type \in {"executor", "router"} THEN [thr EXCEPT !.pc = "pnw_publish"]
     ELSE IF type = "end" THEN EnterCompleteGraph(thr, Completed, "")
     ELSE IF nextNode # "" THEN EnterPublishNodeWork(t, thr, nextNode)
     ELSE Return(t, thr)

PublishNodeWorkSave(t, ok) ==
  /\ th[t].pc = "pnw_save"
  /\ Fault(ok)
  /\ store' = IF ok THEN [store EXCEPT ![th[t].e] = th[t].state] ELSE store
  /\ th' = [th EXCEPT ![t] = AfterNodeSaved(t, th[t])]
  /\ UNCHANGED <<executions, execStatus, ctxState, mu, stream, work, events,
                 nextId, lastSubmit, cancels, aux>>

(***************************************************************************)
(* publishNodeWork, manager.go:289-340: the work envelope on the topic of  *)
(* the node type (a failed publish ends the call with the error), then     *)
(* the NodeStarted event, whose result is ignored.                         *)
(***************************************************************************)
\* every work envelope goes to executor.work
TopicOfExecutorOnly(type) == TopicExecutorWork

TopicOf(type) == IF type = "executor" THEN TopicExecutorWork ELSE TopicRouterWork

WorkEnvelope(thr) ==
  [e |-> thr.e, node |-> thr.node,
   topic |-> TopicOf(GraphOf(thr.state).nodes[thr.node].type)]

PublishNodeWorkPublish(t, ok) ==
  /\ th[t].pc = "pnw_publish"
  /\ Fault(ok)
  /\ IF ok
       THEN /\ work' = work (+) SetToBag({WorkEnvelope(th[t])})
            /\ events' = events (+) SetToBag({[e |-> th[t].e, type |-> "node.started", error |-> ""]})
       ELSE UNCHANGED <<work, events>>
  /\ th' = [th EXCEPT ![t] = Return(t, th[t])]
  /\ UNCHANGED <<store, executions, execStatus, ctxState, mu, stream,
                 nextId, lastSubmit, cancels, aux>>

(***************************************************************************)
(* completeGraph, manager.go:352-356: SaveState of the caller's copy; a    *)
(* failure is logged and ignored.                                          *)
(***************************************************************************)
CompleteGraphSave(t, ok) ==
  /\ th[t].pc = "cg_save"
  /\ Fault(ok)
  /\ store' = IF ok THEN [store EXCEPT ![th[t].e] = th[t].state] ELSE store
  /\ th' = [th EXCEPT ![t].pc = "cg_publish"]
  /\ UNCHANGED <<executions, execStatus, ctxState, mu, stream, work, events,
                 nextId, lastSubmit, cancels, aux>>

(***************************************************************************)
(* context.CancelFunc: cancels a context that is still active; it changes  *)
(* nothing once the deadline has passed or the context is cancelled.       *)
(***************************************************************************)
cancelFunc(c) == IF c = "active" THEN "canceled" ELSE c

(***************************************************************************)
(* Manager.executions.Delete (sync.Map), manager.go:362 and 466.           *)
(***************************************************************************)
\* a Delete that leaves the entry in the tracker
DeleteNothing(tracker, e) == tracker

Delete(tracker, e) == tracker \ {e}

(***************************************************************************)
(* completeGraph, manager.go:358-383: if the tracker holds the execution,  *)
(* cancel its context and delete the entry; then publish GraphFailed for   *)
(* status Failed and GraphCompleted otherwise (the result is ignored).     *)
(***************************************************************************)
\* an event type that does not depend on the status
CompletionEventTypeCompleted(status) == "graph.completed"

CompletionEventType(status) == IF status = Failed THEN "graph.failed" ELSE "graph.completed"

CompleteGraphPublish(t, ok) ==
  LET e == th[t].e
  IN /\ th[t].pc = "cg_publish"
     /\ Fault(ok)
     /\ IF e \in executions
          THEN /\ ctxState' = [ctxState EXCEPT ![e] = cancelFunc(@)]
               /\ executions' = Delete(executions, e)
          ELSE UNCHANGED <<ctxState, executions>>
     /\ events' = IF ok
                    THEN events (+) SetToBag({[e |-> e, type |-> CompletionEventType(th[t].state.status),
                                         error |-> th[t].err]})
                    ELSE events
     /\ th' = [th EXCEPT ![t] = Return(t, th[t])]
     /\ UNCHANGED <<store, execStatus, mu, stream, work, nextId, lastSubmit, cancels, aux>>

(***************************************************************************)
(* The workers (external services): a worker that received a work          *)
(* envelope publishes a completion for its node on node.completed, with    *)
(* an output or with an error (the message may be empty); a router worker  *)
(* may name the next node.  Delivery is at least once: a node's            *)
(* completion may be published again.  The envelope records whether it was *)
(* published after Shutdown had returned (Event.Timestamp).                *)
(***************************************************************************)
NextChoices(w) ==
  IF w.topic = TopicRouterWork THEN {""} \cup NodeIds(GraphOf(store[w.e])) ELSE {""}

ErrorMessages(hasError) == IF hasError THEN {"boom", ""} ELSE {""}

WorkerComplete(w, hasError, errorMsg, next) ==
  /\ w \in BagToSet(work)
  /\ Len(stream) < MaxStream
  /\ Exists(w.e)
  /\ next \in NextChoices(w)
  /\ errorMsg \in ErrorMessages(hasError)
  /\ used' = used + 1
  /\ stream' = Append(stream, [e |-> w.e, node |-> w.node,
                               hasError |-> hasError,
                               error |-> errorMsg,
                               output |-> IF hasError THEN "" ELSE "hi",
                               next |-> next,
                               late |-> ShutdownReturned])
  /\ UNCHANGED <<store, executions, execStatus, ctxState, mu, th, work, events,
                 nextId, lastSubmit, cancels, aux>>

(***************************************************************************)
(* handleNodeCompleted, manager.go:168-215, called by the stream reader    *)
(* for the next message: GetState (an error or a missing record drops the  *)
(* event), the node state (a missing one drops the event), then the        *)
(* outcome written into the handler's copy.                                *)
(***************************************************************************)
\* a completion that takes the state of its node out of the record
ApplyCompletionDroppingNode(state, ev) ==
  [state EXCEPT !.nodes = [n \in DOMAIN state.nodes \ {ev.node} |-> state.nodes[n]]]

\* a completion that does not keep the output of the node
ApplyCompletionWithoutOutput(state, ev) ==
  [state EXCEPT !.nodes[ev.node] =
     IF ev.hasError
       THEN [@ EXCEPT !.completed_at = TRUE, !.status = Failed, !.error = ev.error]
       ELSE [@ EXCEPT !.completed_at = TRUE, !.status = Completed]]

ApplyCompletion(state, ev) ==
  [state EXCEPT !.nodes[ev.node] =
     IF ev.hasError
       THEN [@ EXCEPT !.completed_at = TRUE, !.status = Failed, !.error = ev.error]
       ELSE [@ EXCEPT !.completed_at = TRUE, !.status = Completed, !.output = ev.output]]

HandleNodeCompletedBy(t, ok) ==
  LET ev == Head(stream)
  IN /\ th[t].pc = "idle"
     /\ stream # <<>>
     /\ stream' = Tail(stream)
     /\ Fault(ok)
     /\ th' = [th EXCEPT ![t] =
                 IF ~ok \/ ~Exists(ev.e) THEN HandlerReturned("nil")
                 ELSE IF ev.node \notin DOMAIN store[ev.e].nodes THEN HandlerReturned("nil")
                 ELSE [Idle EXCEPT !.pc = "h_save", !.e = ev.e, !.ev = ev,
                                   !.state = ApplyCompletion(store[ev.e], ev)]]
     /\ UNCHANGED <<store, executions, execStatus, ctxState, mu, work, events,
                    nextId, lastSubmit, cancels, aux>>

HandleNodeCompleted(ok) == HandleNodeCompletedBy(HandlerThread, ok)

(***************************************************************************)
(* handleNodeCompleted, manager.go:217-255: SaveState (a failure is        *)
(* logged and ignored); a failed node fails the graph; otherwise the next  *)
(* node is the one the event names or else the first successor; without a  *)
(* next node the graph is complete, with one it is dispatched.             *)
(***************************************************************************)
\* a handler that does not look at the error of the event
AfterCompletionSavedIgnoringError(t, thr) ==
  LET nextNode == IF thr.ev.next # "" THEN thr.ev.next
                  ELSE findNextNode(GraphOf(thr.state), thr.ev.node)
  IN IF nextNode = "" THEN EnterCompleteGraph(thr, Completed, "")
     ELSE EnterPublishNodeWork(t, thr, nextNode)

\* a handler that follows the edges before it looks at next_node
AfterCompletionSavedEdgesFirst(t, thr) ==
  LET edgeNode == findNextNode(GraphOf(thr.state), thr.ev.node)
      nextNode == IF edgeNode # "" THEN edgeNode ELSE thr.ev.next
  IN IF thr.ev.hasError THEN EnterCompleteGraph(thr, Failed, thr.ev.error)
     ELSE IF nextNode = "" THEN EnterCompleteGraph(thr, Completed, "")
     ELSE EnterPublishNodeWork(t, thr, nextNode)

AfterCompletionSaved(t, thr) ==
  LET nextNode == IF thr.ev.next # "" THEN thr.ev.next
                  ELSE findNextNode(GraphOf(thr.state), thr.ev.node)
  IN IF thr.ev.hasError THEN EnterCompleteGraph(thr, Failed, thr.ev.error)
     ELSE IF nextNode = "" THEN EnterCompleteGraph(thr, Completed, "")
     ELSE EnterPublishNodeWork(t, thr, nextNode)

HandlerSaveBy(t, ok) ==
  /\ th[t].pc = "h_save"
  /\ Fault(ok)
  /\ store' = IF ok THEN [store EXCEPT ![th[t].e] = th[t].state] ELSE store
  /\ th' = [th EXCEPT ![t] = AfterCompletionSaved(t, th[t])]
  /\ UNCHANGED <<executions, execStatus, ctxState, mu, stream, work, events,
                 nextId, lastSubmit, cancels, aux>>

HandlerSave(ok) == HandlerSaveBy(HandlerThread, ok)

(***************************************************************************)
(* CancelExecution, manager.go:422-442: the tracker lookup (a missing      *)
(* entry is "execution not found"), the lock, the check of the tracked     *)
(* status, then the context is cancelled and the tracked status set.       *)
(***************************************************************************)
CancelDone(e, res) == [Idle EXCEPT !.e = e, !.res = res]

CancelBegin(e) ==
  LET t == CancelThread
  IN /\ th[t].pc = "idle"
     /\ used' = used + 1
     /\ cancels' = cancels + 1
     /\ IF e \notin executions
          THEN /\ th' = [th EXCEPT ![t] = CancelDone(e, "not_found")]
               /\ UNCHANGED <<ctxState, execStatus, mu>>
          ELSE /\ mu[e] = NoThread
               /\ IF IsTerminal(execStatus[e])
                    THEN /\ th' = [th EXCEPT ![t] = CancelDone(e, "already_terminal")]
                         /\ UNCHANGED <<ctxState, execStatus, mu>>
                    ELSE /\ ctxState' = [ctxState EXCEPT ![e] = cancelFunc(@)]
                         /\ execStatus' = [execStatus EXCEPT ![e] = Cancelled]
                         /\ mu' = [mu EXCEPT ![e] = t]
                         /\ th' = [th EXCEPT ![t] = [Idle EXCEPT !.pc = "c_load", !.e = e]]
     /\ UNCHANGED <<store, executions, stream, work, events, nextId, lastSubmit, aux>>

(***************************************************************************)
(* CancelExecution, manager.go:444-457: GetState; an error ends the call   *)
(* (the deferred unlock runs); the copy becomes Cancelled with             *)
(* completed_at set.                                                       *)
(***************************************************************************)
CancelLoad(ok) ==
  LET t == CancelThread
      e == th[t].e
  IN /\ th[t].pc = "c_load"
     /\ Fault(ok)
     /\ IF ok /\ Exists(e)
          THEN /\ th' = [th EXCEPT ![t].pc = "c_save",
                                   ![t].state = [store[e] EXCEPT !.status = Cancelled,
                                                                 !.completed_at = TRUE]]
               /\ mu' = mu
          ELSE /\ th' = [th EXCEPT ![t] = CancelDone(e, "get_error")]
               /\ mu' = [mu EXCEPT ![e] = NoThread]
     /\ UNCHANGED <<store, executions, execStatus, ctxState, stream, work, events,
                    nextId, lastSubmit, cancels, aux>>

(***************************************************************************)
(* CancelExecution, manager.go:459-461: SaveState; an error ends the call. *)
(***************************************************************************)
CancelSave(ok) ==
  LET t == CancelThread
      e == th[t].e
  IN /\ th[t].pc = "c_save"
     /\ Fault(ok)
     /\ IF ok
          THEN /\ store' = [store EXCEPT ![e] = th[t].state]
               /\ th' = [th EXCEPT ![t].pc = "c_publish"]
               /\ mu' = mu
          ELSE /\ store' = store
               /\ th' = [th EXCEPT ![t] = CancelDone(e, "save_error")]
               /\ mu' = [mu EXCEPT ![e] = NoThread]
     /\ UNCHANGED <<executions, execStatus, ctxState, stream, work, events,
                    nextId, lastSubmit, cancels, aux>>

(***************************************************************************)
(* CancelExecution, manager.go:463-472: publish GraphCancelled (the result *)
(* is ignored), delete the tracker entry, return nil.                      *)
(***************************************************************************)
CancelPublish(ok) ==
  LET t == CancelThread
      e == th[t].e
  IN /\ th[t].pc = "c_publish"
     /\ Fault(ok)
     /\ events' = IF ok THEN events (+) SetToBag({[e |-> e, type |-> "graph.cancelled", error |-> ""]})
                  ELSE events
     /\ executions' = Delete(executions, e)
     /\ mu' = [mu EXCEPT ![e] = NoThread]
     /\ th' = [th EXCEPT ![t] = CancelDone(e, "ok")]
     /\ UNCHANGED <<store, execStatus, ctxState, stream, work, nextId, lastSubmit, cancels, aux>>

(***************************************************************************)
(* monitorExecution, manager.go:475-482: the context ends by its deadline  *)
(* (the monitor goes on to handleTimeout) or by its CancelFunc (the        *)
(* monitor returns).                                                       *)
(***************************************************************************)
DeadlineExceeded(e) ==
  LET t == MonitorThread(e)
  IN /\ th[t].pc = "wait"
     /\ ctxState[e] = "active"
     /\ ctxState' = [ctxState EXCEPT ![e] = "deadline"]
     /\ th' = [th EXCEPT ![t].pc = "t_load"]
     /\ UNCHANGED <<store, executions, execStatus, mu, stream, work, events,
                    nextId, lastSubmit, used, cancels, aux>>

MonitorCancelled(e) ==
  LET t == MonitorThread(e)
  IN /\ th[t].pc = "wait"
     /\ ctxState[e] = "canceled"
     /\ th' = [th EXCEPT ![t].pc = "done"]
     /\ UNCHANGED <<store, executions, execStatus, ctxState, mu, stream, work, events,
                    nextId, lastSubmit, used, cancels, aux>>

(***************************************************************************)
(* handleTimeout, manager.go:485-508: GetState (an error ends the call),   *)
(* then completeGraph(Failed, "execution timeout") on the copy.            *)
(***************************************************************************)
\* a handleTimeout that returns once it has loaded the record
HandleTimeoutReturning(e, ok) ==
  LET t == MonitorThread(e)
  IN /\ th[t].pc = "t_load"
     /\ Fault(ok)
     /\ th' = [th EXCEPT ![t] = Return(t, th[t])]
     /\ UNCHANGED <<store, executions, execStatus, ctxState, mu, stream, work, events,
                    nextId, lastSubmit, cancels, aux>>

HandleTimeout(e, ok) ==
  LET t == MonitorThread(e)
  IN /\ th[t].pc = "t_load"
     /\ Fault(ok)
     /\ th' = [th EXCEPT ![t] =
                 IF ok /\ Exists(e)
                   THEN EnterCompleteGraph([th[t] EXCEPT !.state = store[e]],
                                           Failed, "execution timeout")
                   ELSE Return(t, th[t])]
     /\ UNCHANGED <<store, executions, execStatus, ctxState, mu, stream, work, events,
                    nextId, lastSubmit, cancels, aux>>

(***************************************************************************)
(* Shutdown, manager.go:511-526: m.cancel() ends the context of the        *)
(* subscription; then Range calls the cancelFunc of every entry of the     *)
(* tracker (the entries stay); then Shutdown returns nil.  The contexts of *)
(* the executions are children of context.Background (manager.go:137), so  *)
(* m.cancel() leaves them alone.                                           *)
(***************************************************************************)
ShutdownCancel ==
  LET t == ShutdownThread
  IN /\ th[t].pc = "idle"
     /\ mctx' = "canceled"
     /\ th' = [th EXCEPT ![t].pc = "s_range"]
     /\ UNCHANGED <<store, executions, execStatus, ctxState, mu, stream, work, events,
                    nextId, lastSubmit, used, cancels, call, mem, hm>>

\* a Range that takes the end of every context for its deadline
RangeCancelAsDeadline(tracked, ctxs) ==
  [e \in ExecIds |-> IF e \in tracked /\ ctxs[e] = "active" THEN "deadline" ELSE ctxs[e]]

RangeCancel(tracked, ctxs) ==
  [e \in ExecIds |-> IF e \in tracked THEN cancelFunc(ctxs[e]) ELSE ctxs[e]]

ShutdownRange ==
  LET t == ShutdownThread
  IN /\ th[t].pc = "s_range"
     /\ ctxState' = RangeCancel(executions, ctxState)
     /\ th' = [th EXCEPT ![t].pc = "done"]
     /\ UNCHANGED <<store, executions, execStatus, mu, stream, work, events,
                    nextId, lastSubmit, used, cancels, aux>>

(***************************************************************************)
(* The reader of the stream, events/doc.go:93-128: it leaves its loop once *)
(* the context of the subscription is done, and otherwise reads the next   *)
(* message and calls the handler with it.                                  *)
(***************************************************************************)
readStream(ok) ==
  /\ mctx = "active"
  /\ HandleNodeCompleted(ok)

(***************************************************************************)
(* The system: clients submit graphs and cancel executions, the workers    *)
(* publish completions, the goroutines of the manager take their steps,    *)
(* the deadline of an execution passes.                                    *)
(***************************************************************************)
Next ==
  \/ \E gname \in GraphNames : SubmitRejected(gname)
  \/ \E gname \in GraphNames, ok \in Outcomes(MaxEnv) : SubmitGraph(gname, ok)
  \/ \E e \in ExecIds, ok \in Outcomes(MaxEnv) : SubmitPublishEvent(e, ok)
  \/ \E t \in Threads, ok \in Outcomes(MaxEnv) : PublishNodeWorkSave(t, ok)
  \/ \E t \in Threads, ok \in Outcomes(MaxEnv) : PublishNodeWorkPublish(t, ok)
  \/ \E t \in Threads, ok \in Outcomes(MaxEnv) : CompleteGraphSave(t, ok)
  \/ \E t \in Threads, ok \in Outcomes(MaxEnv) : CompleteGraphPublish(t, ok)
  \/ /\ used < MaxEnv
     /\ \E w \in BagToSet(work), hasError \in BOOLEAN, errorMsg \in {"boom", ""},
           next \in {"", A, B, C} :
          WorkerComplete(w, hasError, errorMsg, next)
  \/ \E ok \in Outcomes(MaxEnv) : HandleNodeCompleted(ok)
  \/ \E ok \in Outcomes(MaxEnv) : HandlerSave(ok)
  \/ /\ used < MaxEnv
     /\ \E e \in ExecIds : CancelBegin(e)
  \/ \E ok \in Outcomes(MaxEnv) : CancelLoad(ok)
  \/ \E ok \in Outcomes(MaxEnv) : CancelSave(ok)
  \/ \E ok \in Outcomes(MaxEnv) : CancelPublish(ok)
  \/ \E e \in ExecIds : DeadlineExceeded(e)
  \/ \E e \in ExecIds : MonitorCancelled(e)
  \/ \E e \in ExecIds, ok \in Outcomes(MaxEnv) : HandleTimeout(e, ok)

Spec == Init /\ [][Next]_vars

(***************************************************************************)
(* The scheduler of Go runs every goroutine that can run, and the runtime  *)
(* fires every timer that is armed: each goroutine of the manager takes    *)
(* its next step whatever the others do.                                   *)
(***************************************************************************)
GoroutineRuns(t) ==
  \/ \E ok \in Outcomes(MaxEnv) : PublishNodeWorkSave(t, ok)
  \/ \E ok \in Outcomes(MaxEnv) : PublishNodeWorkPublish(t, ok)
  \/ \E ok \in Outcomes(MaxEnv) : CompleteGraphSave(t, ok)
  \/ \E ok \in Outcomes(MaxEnv) : CompleteGraphPublish(t, ok)
  \/ t[1] = "submit" /\ \E ok \in Outcomes(MaxEnv) : SubmitPublishEvent(t[2], ok)
  \/ t[1] = "monitor" /\ DeadlineExceeded(t[2])
  \/ t[1] = "monitor" /\ MonitorCancelled(t[2])
  \/ t[1] = "monitor" /\ \E ok \in Outcomes(MaxEnv) : HandleTimeout(t[2], ok)
  \/ t = HandlerThread /\ \E ok \in Outcomes(MaxEnv) : HandleNodeCompleted(ok)
  \/ t = HandlerThread /\ \E ok \in Outcomes(MaxEnv) : HandlerSave(ok)
  \/ t = CancelThread /\ \E ok \in Outcomes(MaxEnv) : CancelLoad(ok)
  \/ t = CancelThread /\ \E ok \in Outcomes(MaxEnv) : CancelSave(ok)
  \/ t = CancelThread /\ \E ok \in Outcomes(MaxEnv) : CancelPublish(ok)

FairSpec == Spec /\ \A t \in Threads : WF_vars(GoroutineRuns(t))

(***************************************************************************)
(* The pipeline alone: nobody cancels and the deadline is far away.        *)
(***************************************************************************)
PipelineThreads == {SubmitThread(e) : e \in ExecIds} \cup {HandlerThread}

PipelineNext ==
  \/ \E gname \in GraphNames, ok \in Outcomes(MaxPipelineEnv) : SubmitGraph(gname, ok)
  \/ \E e \in ExecIds, ok \in Outcomes(MaxPipelineEnv) : SubmitPublishEvent(e, ok)
  \/ \E t \in PipelineThreads, ok \in Outcomes(MaxPipelineEnv) : PublishNodeWorkSave(t, ok)
  \/ \E t \in PipelineThreads, ok \in Outcomes(MaxPipelineEnv) : PublishNodeWorkPublish(t, ok)
  \/ \E t \in PipelineThreads, ok \in Outcomes(MaxPipelineEnv) : CompleteGraphSave(t, ok)
  \/ \E t \in PipelineThreads, ok \in Outcomes(MaxPipelineEnv) : CompleteGraphPublish(t, ok)
  \/ /\ used < MaxPipelineEnv
     /\ \E w \in BagToSet(work), hasError \in BOOLEAN, errorMsg \in {"boom", ""},
           next \in {"", A, B, C} :
          WorkerComplete(w, hasError, errorMsg, next)
  \/ \E ok \in Outcomes(MaxPipelineEnv) : HandleNodeCompleted(ok)
  \/ \E ok \in Outcomes(MaxPipelineEnv) : HandlerSave(ok)
  \/ \E e \in ExecIds : MonitorCancelled(e)

PipelineSpec == Init /\ [][PipelineNext]_vars

(***************************************************************************)
(* The pipeline when nothing fails and the workers answer every work       *)
(* envelope once and never name a next node: a worker completes a node     *)
(* that is Running once the completion before it has been handled.         *)
(***************************************************************************)
AnswerOnce(w, hasError, errorMsg) ==
  /\ Exists(w.e)
  /\ store[w.e].nodes[w.node].status = Running
  /\ \A t \in PipelineThreads : th[t].pc \in {"idle", "done"}
  /\ WorkerComplete(w, hasError, errorMsg, "")

SequentialNext ==
  \/ \E gname \in GraphNames : SubmitGraph(gname, TRUE)
  \/ \E e \in ExecIds : SubmitPublishEvent(e, TRUE)
  \/ \E t \in PipelineThreads : PublishNodeWorkSave(t, TRUE)
  \/ \E t \in PipelineThreads : PublishNodeWorkPublish(t, TRUE)
  \/ \E t \in PipelineThreads : CompleteGraphSave(t, TRUE)
  \/ \E t \in PipelineThreads : CompleteGraphPublish(t, TRUE)
  \/ /\ used < MaxPipelineEnv
     /\ \E w \in BagToSet(work), hasError \in BOOLEAN, errorMsg \in {"boom", ""} :
          AnswerOnce(w, hasError, errorMsg)
  \/ HandleNodeCompleted(TRUE)
  \/ HandlerSave(TRUE)
  \/ \E e \in ExecIds : MonitorCancelled(e)

SequentialSpec == Init /\ [][SequentialNext]_vars

(***************************************************************************)
(* A quiet execution: after Submit no completion arrives and nobody        *)
(* cancels; the store and the bus may fail SubmitGraph, never the          *)
(* supervisor.                                                             *)
(***************************************************************************)
QuietStep ==
  \/ \E e \in ExecIds, ok \in Outcomes(MaxEnv) : SubmitPublishEvent(e, ok)
  \/ \E e \in ExecIds, ok \in Outcomes(MaxEnv) : PublishNodeWorkSave(SubmitThread(e), ok)
  \/ \E e \in ExecIds, ok \in Outcomes(MaxEnv) : PublishNodeWorkPublish(SubmitThread(e), ok)
  \/ \E e \in ExecIds, ok \in Outcomes(MaxEnv) : CompleteGraphSave(SubmitThread(e), ok)
  \/ \E e \in ExecIds, ok \in Outcomes(MaxEnv) : CompleteGraphPublish(SubmitThread(e), ok)
  \/ \E e \in ExecIds : CompleteGraphSave(MonitorThread(e), TRUE)
  \/ \E e \in ExecIds : CompleteGraphPublish(MonitorThread(e), TRUE)
  \/ \E e \in ExecIds : DeadlineExceeded(e)
  \/ \E e \in ExecIds : MonitorCancelled(e)
  \/ \E e \in ExecIds : HandleTimeout(e, TRUE)

QuietNext ==
  \/ \E gname \in GraphNames : SubmitRejected(gname)
  \/ \E gname \in GraphNames, ok \in Outcomes(MaxEnv) : SubmitGraph(gname, ok)
  \/ QuietStep

\* the steps of one goroutine of a quiet execution
QuietGoroutineRuns(t) ==
  \/ t[1] = "submit" /\ \E ok \in Outcomes(MaxEnv) : SubmitPublishEvent(t[2], ok)
  \/ t[1] = "submit" /\ \E ok \in Outcomes(MaxEnv) : PublishNodeWorkSave(t, ok)
  \/ t[1] = "submit" /\ \E ok \in Outcomes(MaxEnv) : PublishNodeWorkPublish(t, ok)
  \/ t[1] = "submit" /\ \E ok \in Outcomes(MaxEnv) : CompleteGraphSave(t, ok)
  \/ t[1] = "submit" /\ \E ok \in Outcomes(MaxEnv) : CompleteGraphPublish(t, ok)
  \/ t[1] = "monitor" /\ CompleteGraphSave(t, TRUE)
  \/ t[1] = "monitor" /\ CompleteGraphPublish(t, TRUE)
  \/ t[1] = "monitor" /\ DeadlineExceeded(t[2])
  \/ t[1] = "monitor" /\ MonitorCancelled(t[2])
  \/ t[1] = "monitor" /\ HandleTimeout(t[2], TRUE)

QuietThreads == {SubmitThread(e) : e \in ExecIds} \cup {MonitorThread(e) : e \in ExecIds}

QuietSpec == Init /\ [][QuietNext]_vars /\ \A t \in QuietThreads : WF_vars(QuietGoroutineRuns(t))

(***************************************************************************)
(* The system with its Shutdown, on the Redis Streams bus (cmd/dago): the  *)
(* handler is called by the reader of the stream alone.                    *)
(***************************************************************************)
ShutdownNext ==
  \/ \E gname \in GraphNames, ok \in Outcomes(MaxEnv) : SubmitGraph(gname, ok)
  \/ \E e \in ExecIds, ok \in Outcomes(MaxEnv) : SubmitPublishEvent(e, ok)
  \/ \E t \in Threads, ok \in Outcomes(MaxEnv) : PublishNodeWorkSave(t, ok)
  \/ \E t \in Threads, ok \in Outcomes(MaxEnv) : PublishNodeWorkPublish(t, ok)
  \/ \E t \in Threads, ok \in Outcomes(MaxEnv) : CompleteGraphSave(t, ok)
  \/ \E t \in Threads, ok \in Outcomes(MaxEnv) : CompleteGraphPublish(t, ok)
  \/ /\ used < MaxEnv
     /\ \E w \in BagToSet(work), hasError \in BOOLEAN, errorMsg \in {"boom", ""},
           next \in {"", A, B, C} :
          WorkerComplete(w, hasError, errorMsg, next)
  \/ \E ok \in Outcomes(MaxEnv) : readStream(ok)
  \/ \E ok \in Outcomes(MaxEnv) : HandlerSave(ok)
  \/ /\ used < MaxEnv
     /\ \E e \in ExecIds : CancelBegin(e)
  \/ \E ok \in Outcomes(MaxEnv) : CancelLoad(ok)
  \/ \E ok \in Outcomes(MaxEnv) : CancelSave(ok)
  \/ \E ok \in Outcomes(MaxEnv) : CancelPublish(ok)
  \/ \E e \in ExecIds : DeadlineExceeded(e)
  \/ \E e \in ExecIds : MonitorCancelled(e)
  \/ \E e \in ExecIds, ok \in Outcomes(MaxEnv) : HandleTimeout(e, ok)
  \/ ShutdownCancel
  \/ ShutdownRange

ShutdownSpec == Init /\ [][ShutdownNext]_vars

(***************************************************************************)
(* The in-memory bus, events/memory/memory.go.  Subscribe (43-57) appends  *)
(* the handler and starts a goroutine that calls unsubscribe once the      *)
(* context of the subscription is done; unsubscribe (79-91) removes the    *)
(* handler h for which &h == &handler, the address of its loop variable    *)
(* and the address of its parameter.  Publish (24-41) starts a goroutine   *)
(* for each subscribed handler and returns nil.                            *)
(***************************************************************************)
AddressOfLoopVariable == "&h"
AddressOfParameter == "&handler"

unsubscribe(handlers) ==
  SelectSeq(handlers, LAMBDA h : AddressOfLoopVariable # AddressOfParameter)

Subscribers ==
  IF mctx = "active" THEN <<"handleNodeCompleted">>
  ELSE unsubscribe(<<"handleNodeCompleted">>)

MemoryBusDeliver(t, ok) ==
  /\ Subscribers # <<>>
  /\ HandleNodeCompletedBy(t, ok)

(***************************************************************************)
(* The pipeline and Shutdown on the in-memory bus: nobody cancels and the  *)
(* deadline is far away; the store may fail, the bus does not.             *)
(***************************************************************************)
MemoryBusThreads == {SubmitThread(e) : e \in ExecIds} \cup HandlerThreads

MemoryBusNext ==
  \/ \E gname \in GraphNames, ok \in Outcomes(MaxEnv) : SubmitGraph(gname, ok)
  \/ \E e \in ExecIds : SubmitPublishEvent(e, TRUE)
  \/ \E t \in MemoryBusThreads, ok \in Outcomes(MaxEnv) : PublishNodeWorkSave(t, ok)
  \/ \E t \in MemoryBusThreads : PublishNodeWorkPublish(t, TRUE)
  \/ \E t \in MemoryBusThreads, ok \in Outcomes(MaxEnv) : CompleteGraphSave(t, ok)
  \/ \E t \in MemoryBusThreads : CompleteGraphPublish(t, TRUE)
  \/ /\ used < MaxEnv
     /\ \E w \in BagToSet(work), hasError \in BOOLEAN, errorMsg \in {"boom", ""},
           next \in {"", A, B, C} :
          WorkerComplete(w, hasError, errorMsg, next)
  \/ \E t \in HandlerThreads, ok \in Outcomes(MaxEnv) : MemoryBusDeliver(t, ok)
  \/ \E t \in HandlerThreads, ok \in Outcomes(MaxEnv) : HandlerSaveBy(t, ok)
  \/ \E e \in ExecIds : MonitorCancelled(e)
  \/ ShutdownCancel
  \/ ShutdownRange

MemoryBusSpec == Init /\ [][MemoryBusNext]_vars


(***************************************************************************)
(* findNextNode on its own: a graph with any edges over three nodes, with  *)
(* or without an entry node, and any of the nodes.                         *)
(***************************************************************************)
EdgeSeqs ==
  UNION {[1 .. k -> {Edge(from, to) : from \in {A, B, C}, to \in {A, B, C}}] : k \in 0 .. MaxEdges}

FindGraphs ==
  {[id |-> "g", version |-> "1", entry |-> entry,
    nodes |-> (A :> Node("executor") @@ B :> Node("executor") @@ C :> Node("executor")),
    edges |-> edges] : entry \in {"", A}, edges \in EdgeSeqs}

FindInit ==
  /\ ManagerInit
  /\ call \in [fn : {"findNextNode"}, g : FindGraphs, node : {A, B, C},
               done : {FALSE}, result : {""}]

CallFindNextNode ==
  /\ call.fn = "findNextNode"
  /\ ~call.done
  /\ call' = [call EXCEPT !.done = TRUE, !.result = findNextNode(call.g, call.node)]
  /\ UNCHANGED <<store, executions, execStatus, ctxState, mu, th, stream, work, events,
                 nextId, lastSubmit, used, cancels, mctx, mem, hm>>

FindSpec == FindInit /\ [][CallFindNextNode]_vars

(***************************************************************************)
(* Validate on its own, for the same graphs: every edge of them resolves,  *)
(* and their edges may form a cycle.                                       *)
(***************************************************************************)
ValidateInit ==
  /\ ManagerInit
  /\ call \in [fn : {"Validate"}, g : FindGraphs, done : {FALSE}, result : {""}]

CallValidate ==
  /\ call.fn = "Validate"
  /\ ~call.done
  /\ call' = [call EXCEPT !.done = TRUE, !.result = Validate(call.g)]
  /\ UNCHANGED <<store, executions, execStatus, ctxState, mu, th, stream, work, events,
                 nextId, lastSubmit, used, cancels, mctx, mem, hm>>

ValidateSpec == ValidateInit /\ [][CallValidate]_vars

(***************************************************************************)
(* Validate called twice on one graph.  The nodes of a graph are a Go map, *)
(* and the loop of validator.go:39-49 ranges over it in an order the       *)
(* runtime chooses anew for every range statement: the error of the nodes  *)
(* is that of the first invalid node the loop meets, which may be any of   *)
(* the invalid nodes.  An error is its kind, the node or edge end it       *)
(* names, and for a node the cause validateNode gave.                      *)
(***************************************************************************)
ValidationError(kind, offender, cause) == [kind |-> kind, offender |-> offender, cause |-> cause]

NoError == ValidationError("", "", "")

InvalidNodes(g) == {n \in NodeIds(g) : validateNode(n, g.nodes[n]) # ""}

RECURSIVE firstBadEdge(_, _)
firstBadEdge(g, i) ==
  IF i > Len(g.edges) THEN NoError
  ELSE IF g.edges[i].from \notin NodeIds(g)
    THEN ValidationError("edge references non-existent source node", g.edges[i].from, "")
  ELSE IF g.edges[i].to \notin NodeIds(g)
    THEN ValidationError("edge references non-existent target node", g.edges[i].to, "")
  ELSE firstBadEdge(g, i + 1)

\* the errors a call of Validate can return; NoError when the graph is admitted
ValidateOutcomes(g) ==
  IF g.id = "" THEN {ValidationError("graph ID is required", "", "")}
  ELSE IF g.version = "" THEN {ValidationError("graph version is required", "", "")}
  ELSE IF NodeIds(g) = {} THEN {ValidationError("graph must have at least one node", "", "")}
  ELSE IF InvalidNodes(g) # {}
    THEN {ValidationError("invalid node", n, validateNode(n, g.nodes[n])) : n \in InvalidNodes(g)}
  ELSE IF g.entry # "" /\ g.entry \notin NodeIds(g)
    THEN {ValidationError("entry node not found in graph", g.entry, "")}
  ELSE {firstBadEdge(g, 1)}

\* graphs over A, B and C in which any of the nodes may be invalid, the entry
\* node and the ends of the edges may be missing from the nodes
NodeMaps ==
  {nodes \in [{A, B, C} -> {Node("executor"), BadNode("executor")}] : TRUE}
    \cup {(A :> Node("executor") @@ B :> Node("executor"))}

RevalidateGraphs ==
  {[id |-> "g", version |-> "1", entry |-> entry, nodes |-> nodes, edges |-> edges] :
     entry \in {"", A, C}, nodes \in NodeMaps,
     edges \in UNION {[1 .. k -> {Edge(A, B), Edge(B, C), Edge(C, A)}] : k \in 0 .. MaxEdges}}

RevalidateInit ==
  /\ ManagerInit
  /\ call \in [fn : {"Validate twice"}, g : RevalidateGraphs, done : {FALSE}, results : {<<>>}]

CallValidateAgain(err) ==
  /\ call.fn = "Validate twice"
  /\ Len(call.results) < 2
  /\ err \in ValidateOutcomes(call.g)
  /\ call' = [call EXCEPT !.results = Append(@, err), !.done = Len(call.results) = 1]
  /\ UNCHANGED <<store, executions, execStatus, ctxState, mu, th, stream, work, events,
                 nextId, lastSubmit, used, cancels, mctx, mem, hm>>

RevalidateNext ==
  \E err \in ValidateOutcomes(call.g) : CallValidateAgain(err)

RevalidateSpec == RevalidateInit /\ [][RevalidateNext]_vars

(***************************************************************************)
(* The in-memory store and a client of it.  The client builds records as   *)
(* SubmitGraph does (manager.go:104-120) and changes the records it holds  *)
(* as the manager does: the status of a node (manager.go:276-280, 210-215) *)
(* through the NodeStates map of the record, the status of the record      *)
(* (manager.go:345-350).  SaveState (memory.go:98-113) stores the address  *)
(* of a copy of the struct: `stateCopy := *graphState` copies the fields,  *)
(* and the field NodeStates is a map, a reference.  GetState               *)
(* (memory.go:116-126) returns the stored address.                         *)
(***************************************************************************)
RecordNodes == {A, B}

NewGraphState(e) ==
  /\ Len(mem.structs) < MaxRecords
  /\ mem' = [mem EXCEPT
               !.maps = Append(@, [n \in RecordNodes |-> Pending]),
               !.structs = Append(@, [id |-> e, status |-> Running, nodes |-> Len(mem.maps) + 1]),
               !.held = @ \cup {Len(mem.structs) + 1}]
  /\ UNCHANGED <<store, executions, execStatus, ctxState, mu, th, stream, work, events,
                 nextId, lastSubmit, used, cancels, call, mctx, hm>>

SaveState(p) ==
  /\ p \in mem.held
  /\ Len(mem.structs) < MaxRecords
  /\ mem' = [mem EXCEPT
               !.structs = Append(@, mem.structs[p]),
               !.states[mem.structs[p].id] = Len(mem.structs) + 1]
  /\ UNCHANGED <<store, executions, execStatus, ctxState, mu, th, stream, work, events,
                 nextId, lastSubmit, used, cancels, call, mctx, hm>>

GetState(e) ==
  /\ mem.states[e] # 0
  /\ mem.states[e] \notin mem.held
  /\ mem' = [mem EXCEPT !.held = @ \cup {mem.states[e]}]
  /\ UNCHANGED <<store, executions, execStatus, ctxState, mu, th, stream, work, events,
                 nextId, lastSubmit, used, cancels, call, mctx, hm>>

SetStatus(p, status) ==
  /\ p \in mem.held
  /\ mem.structs[p].status # status
  /\ mem' = [mem EXCEPT !.structs[p].status = status]
  /\ UNCHANGED <<store, executions, execStatus, ctxState, mu, th, stream, work, events,
                 nextId, lastSubmit, used, cancels, call, mctx, hm>>

SetNodeStatus(p, n, status) ==
  /\ p \in mem.held
  /\ mem.maps[mem.structs[p].nodes][n] # status
  /\ mem' = [mem EXCEPT !.maps[mem.structs[p].nodes][n] = status]
  /\ UNCHANGED <<store, executions, execStatus, ctxState, mu, th, stream, work, events,
                 nextId, lastSubmit, used, cancels, call, mctx, hm>>

\* what a reader of the store finds under an id: the fields of the stored
\* struct and the node states its map leads to
StoredRecord(m, e) ==
  IF m.states[e] = 0 THEN NoRecord
  ELSE [status |-> m.structs[m.states[e]].status,
        nodes |-> m.maps[m.structs[m.states[e]].nodes]]

MemoryStoreNext ==
  \/ \E e \in ExecIds : NewGraphState(e)
  \/ \E p \in 1 .. MaxRecords : SaveState(p)
  \/ \E e \in ExecIds : GetState(e)
  \/ \E p \in 1 .. MaxRecords, status \in {Completed, Failed} : SetStatus(p, status)
  \/ \E p \in 1 .. MaxRecords, n \in RecordNodes, status \in {Running, Completed} :
       SetNodeStatus(p, n, status)

MemoryStoreSpec == Init /\ [][MemoryStoreNext]_vars

(***************************************************************************)
(* The HealthMonitor of the worker pool (workers, part_001:41-80) and a    *)
(* client that calls Start and Stop one after the other.  Start sets       *)
(* running under the mutex and starts a goroutine for run; Stop clears     *)
(* running under the mutex and closes stopCh, the channel NewHealthMonitor *)
(* made: closing a closed channel panics, and the panic ends the process.  *)
(* run leaves its loop when it finds stopCh closed; its health checks      *)
(* change nothing here.                                                    *)
(***************************************************************************)
Start ==
  /\ ~hm.panicked
  /\ Len(hm.calls) < MaxCalls
  /\ hm' = IF hm.running
             THEN [hm EXCEPT !.calls = Append(@, "Start")]
             ELSE [hm EXCEPT !.calls = Append(@, "Start"),
                             !.running = TRUE,
                             !.loops = @ + 1]
  /\ UNCHANGED <<store, executions, execStatus, ctxState, mu, th, stream, work, events,
                 nextId, lastSubmit, used, cancels, call, mctx, mem>>

Stop ==
  /\ ~hm.panicked
  /\ Len(hm.calls) < MaxCalls
  /\ hm' = IF ~hm.running
             THEN [hm EXCEPT !.calls = Append(@, "Stop")]
             ELSE [hm EXCEPT !.calls = Append(@, "Stop"),
                             !.running = FALSE,
                             !.stopCh = "closed",
                             !.panicked = (hm.stopCh = "closed")]
  /\ UNCHANGED <<store, executions, execStatus, ctxState, mu, th, stream, work, events,
                 nextId, lastSubmit, used, cancels, call, mctx, mem>>

run ==
  /\ ~hm.panicked
  /\ hm.loops > 0
  /\ hm.stopCh = "closed"
  /\ hm' = [hm EXCEPT !.loops = @ - 1]
  /\ UNCHANGED <<store, executions, execStatus, ctxState, mu, th, stream, work, events,
                 nextId, lastSubmit, used, cancels, call, mctx, mem>>

HealthNext == Start \/ Stop \/ run

HealthSpec == Init /\ [][HealthNext]_vars

(***************************************************************************)
(* Properties.                                                             *)
(***************************************************************************)
AllPending(state) == \A n \in DOMAIN state.nodes : state.nodes[n].status = Pending

HasFailedNode(state) == \E n \in DOMAIN state.nodes : state.nodes[n].status = Failed

GraphEvent(e, type, error) == [e |-> e, type |-> type, error |-> error]

Published(ev) == ev \in BagToSet(events)

\* C1: once the stored record of an execution is terminal, the handling of a
\* completion event for it leaves the stored record as it is: the handler
\* that loaded a terminal record, and finds it terminal still, writes nothing.
C1_TerminalAbsorbing ==
  [][ LET thr == th[HandlerThread]
      IN (/\ thr.pc = "h_save"
          /\ th'[HandlerThread] # thr
          /\ IsTerminal(thr.state.status)
          /\ IsTerminal(store[thr.e].status))
         => store' = store ]_vars

\* C2: a stored record whose status is Completed has no node state that is
\* Failed.
C2_CompletedHasNoFailedNode ==
  \A e \in ExecIds :
    (Exists(e) /\ store[e].status = Completed) => ~HasFailedNode(store[e])

\* C3: a call of CancelExecution for an execution whose stored record is
\* terminal returns the already-terminal error, and the stored record is as
\* before.
C3_CancelOfTerminal ==
  [][ \A e \in ExecIds :
        (/\ cancels' = cancels + 1
         /\ th'[CancelThread].e = e
         /\ Exists(e)
         /\ IsTerminal(store[e].status))
        => (/\ th'[CancelThread].pc = "idle"
            /\ th'[CancelThread].res = "already_terminal"
            /\ store' = store) ]_vars

Inadmissible(g) ==
  \/ g.id = ""
  \/ g.version = ""
  \/ DOMAIN g.nodes = {}
  \/ "" \in DOMAIN g.nodes
  \/ \E n \in DOMAIN g.nodes : ~g.nodes[n].ok
  \/ g.entry # "" /\ g.entry \notin DOMAIN g.nodes
  \/ \E i \in 1 .. Len(g.edges) :
       g.edges[i].from \notin DOMAIN g.nodes \/ g.edges[i].to \notin DOMAIN g.nodes

\* C5: SubmitGraph of a graph that violates an admission invariant returns a
\* validation error and changes nothing: no record, no event, no work
\* envelope, no tracker entry, no deadline context, no goroutine, no id.
C5_RejectedSubmitWritesNothing ==
  [][ (lastSubmit' # lastSubmit /\ Inadmissible(Graphs[lastSubmit'.g]))
      => (/\ lastSubmit'.err # ""
          /\ UNCHANGED <<store, executions, execStatus, ctxState, mu, th, stream,
                         work, events, nextId>>) ]_vars

C5_Witness ==
  /\ lastSubmit.g = "badto"
  /\ lastSubmit.err = "edge references non-existent target node"
  /\ \A e \in ExecIds : ~Exists(e)
  /\ events = EmptyBag

\* C6: every execution that has a stored record eventually has a stored
\* record whose status is terminal.
C6_EventuallyTerminal ==
  \A e \in ExecIds : (Exists(e)) ~> (Exists(e) /\ IsTerminal(store[e].status))

TimedOut(e) ==
  /\ Exists(e)
  /\ store[e].status = Failed
  /\ store[e].error = "execution timeout"
  /\ Published(GraphEvent(e, "graph.failed", "execution timeout"))

SubmitReturned(e) == th[SubmitThread(e)].pc = "done" /\ th[SubmitThread(e)].res = "ok"

C8_SupervisorSparesTerminal ==
  [][ \A e \in ExecIds :
        (/\ th[MonitorThread(e)].pc = "cg_save"
         /\ th'[MonitorThread(e)] # th[MonitorThread(e)]
         /\ Exists(e)
         /\ IsTerminal(store[e].status))
        => store'[e] = store[e] ]_vars

C10_FailedNodeFailsGraph ==
  \A e \in ExecIds :
    <>(Exists(e) /\ HasFailedNode(store[e])) => <>(Exists(e) /\ store[e].status = Failed)

\* C11: a successful completion that names next_node N makes the handler
\* dispatch N: after the node result is saved the handler is in
\* publishNodeWork for N with N Running in its copy (it returns when the
\* graph has no node N), and the only work envelope the handler publishes
\* for this event is the one of N, whatever edges leave the completed node.
C11_NextNodeDispatched ==
  [][ LET old == th[HandlerThread]
          new == th'[HandlerThread]
          N == old.ev.next
      IN (old.ev.next # "" /\ ~old.ev.hasError /\ new # old) =>
           /\ old.pc = "h_save" =>
                IF N \in NodeIds(GraphOf(old.state))
                  THEN /\ new.pc = "pnw_save"
                       /\ new.node = N
                       /\ new.state.nodes[N].status = Running
                  ELSE new.pc = "idle"
           /\ old.pc # "h_save" => new.node = N \/ new.pc = "idle"
           /\ work' # work =>
                work' = work (+) SetToBag({[e |-> old.e, node |-> N,
                          topic |-> TopicOf(GraphOf(old.state).nodes[N].type)]}) ]_vars

C11_Witness ==
  \E e \in ExecIds :
    /\ Exists(e)
    /\ store[e].graph = "routed"
    /\ findNextNode(Graphs["routed"], A) = B
    /\ store[e].nodes[A].status = Completed
    /\ store[e].nodes[B].status = Pending
    /\ store[e].nodes[C].status = Running
    /\ [e |-> e, node |-> C, topic |-> TopicExecutorWork] \in BagToSet(work)
    /\ th[HandlerThread].pc = "idle"

(***************************************************************************)
(* The first edge that leaves a node, said without a loop: the edge of     *)
(* the least index among those whose source is the node.                   *)
(***************************************************************************)
FirstTarget(edges, n) ==
  LET from == {i \in 1 .. Len(edges) : edges[i].from = n}
  IN IF from = {} THEN ""
     ELSE edges[CHOOSE i \in from : \A j \in from : i <= j].to

CancelReturnsOk(e) ==
  /\ th[CancelThread].pc = "c_publish"
  /\ th[CancelThread].e = e
  /\ th'[CancelThread] = CancelDone(e, "ok")

CancelledBy(e) ==
  /\ th[CancelThread].pc = "idle"
  /\ th[CancelThread].e = e
  /\ th[CancelThread].res = "ok"

\* C13: when CancelExecution returns nil for an execution, the stored record
\* is Cancelled with completed_at set, the deadline context is cancelled,
\* graph.events holds exactly one GraphCancelled event of the execution and
\* the tracker has no entry for it; and after that the deadline supervisor
\* does not write the record.
C13_SuccessfulCancel ==
  [][ \A e \in ExecIds :
        /\ CancelReturnsOk(e) =>
             /\ store'[e].status = Cancelled
             /\ store'[e].completed_at
             /\ ctxState'[e] = "canceled"
             /\ CopiesIn(GraphEvent(e, "graph.cancelled", ""), events') = 1
             /\ e \notin executions'
        /\ (CancelledBy(e) /\ th[MonitorThread(e)].pc = "cg_save"
              /\ th'[MonitorThread(e)] # th[MonitorThread(e)])
             => store'[e] = store[e] ]_vars

CancelCalled(e) == cancels' = cancels + 1 /\ th'[CancelThread].e = e

\* C14: a call of CancelExecution answers "execution not found" when the
\* store holds no record of the id, and gives another answer when the store
\* holds a record of it that is not terminal and SubmitGraph has returned,
\* with the id or with an error.
C14_NotFoundOnlyWithoutRecord ==
  [][ \A e \in ExecIds :
        CancelCalled(e) =>
          /\ ~Exists(e) => th'[CancelThread].res = "not_found"
          /\ (Exists(e) /\ ~IsTerminal(store[e].status)
                /\ th[SubmitThread(e)].pc = "done")
               => th'[CancelThread].res # "not_found" ]_vars

(***************************************************************************)
(* C15: Shutdown mutates no stored record.  A step of Shutdown leaves the  *)
(* store and graph.events as they are and makes no context end by its      *)
(* deadline; a supervisor that reacts to a cancelled context returns       *)
(* without a write, so that it never goes on to handleTimeout.             *)
(***************************************************************************)
ShutdownStep == th'[ShutdownThread] # th[ShutdownThread]

C15_ShutdownMutatesNoRecord ==
  [][ /\ ShutdownStep =>
           /\ store' = store
           /\ events' = events
           /\ \A e \in ExecIds : ctxState'[e] = "deadline" => ctxState[e] = "deadline"
      /\ \A e \in ExecIds :
           (th[MonitorThread(e)].pc = "wait" /\ ctxState[e] = "canceled")
             => /\ th'[MonitorThread(e)].pc \in {"wait", "done"}
                /\ th'[MonitorThread(e)] # th[MonitorThread(e)] => store' = store ]_vars

\* Shutdown has returned with an execution under way: its record is still
\* Running, its entry is still in the tracker, its supervisor has returned
C15_Witness ==
  \E e \in ExecIds :
    /\ ShutdownReturned
    /\ e \in executions
    /\ ctxState[e] = "canceled"
    /\ th[MonitorThread(e)].pc = "done"
    /\ Exists(e) /\ store[e].status = Running
    /\ cancels = 0

(***************************************************************************)
(* C16: once Shutdown has returned this process advances no execution: no  *)
(* completion published on node.completed after the return of Shutdown is  *)
(* given to the completion handler.                                        *)
(***************************************************************************)
HandlerInvoked == stream # <<>> /\ stream' = Tail(stream)

C16_NoHandlerAfterShutdown ==
  [][ HandlerInvoked => ~Head(stream).late ]_vars

(***************************************************************************)
(* C17: the completions of one execution are handled one after the other:  *)
(* no two calls of the completion handler for the same execution are both  *)
(* between their load of the record and their last write of it.            *)
(***************************************************************************)
LoadedNotYetStored(t) == th[t].pc \in {"h_save", "pnw_save", "cg_save"}

C17_HandlersSerial ==
  \A t1, t2 \in HandlerThreads :
    (t1 # t2 /\ LoadedNotYetStored(t1) /\ LoadedNotYetStored(t2)) => th[t1].e # th[t2].e

(***************************************************************************)
(* C18: every terminal transition comes with its event on graph.events:    *)
(* once no operation is about to publish for an execution, a Completed     *)
(* record has a GraphCompleted event, a Failed one a GraphFailed event and *)
(* a Cancelled one a GraphCancelled event.                                 *)
(***************************************************************************)
TerminalEventType(status) ==
  IF status = Completed THEN "graph.completed"
  ELSE IF status = Failed THEN "graph.failed"
  ELSE "graph.cancelled"

AboutToPublish(e) ==
  \E t \in Threads : th[t].e = e /\ th[t].pc \in {"cg_save", "cg_publish", "c_save", "c_publish"}

EventOfType(e, type) ==
  \E ev \in BagToSet(events) : ev.e = e /\ ev.type = type

C18_TerminalTransitionHasEvent ==
  \A e \in ExecIds :
    (Exists(e) /\ IsTerminal(store[e].status) /\ ~AboutToPublish(e))
      => EventOfType(e, TerminalEventType(store[e].status))

(***************************************************************************)
(* C19: the tracker holds no entry for an execution whose record is        *)
(* terminal, and the timer of its deadline is no longer armed, once the    *)
(* operation that wrote the terminal record has finished (completeGraph    *)
(* and CancelExecution delete the entry after their SaveState).            *)
(***************************************************************************)
Finishing(e) ==
  \E t \in Threads : th[t].e = e /\ th[t].pc \in {"cg_publish", "c_publish"}

C19_NoTrackerEntryForTerminal ==
  \A e \in ExecIds :
    (Exists(e) /\ IsTerminal(store[e].status) /\ ~Finishing(e))
      => (e \notin executions /\ ctxState[e] # "active")

\* a graph has completed, its entry is gone and its context cancelled
C19_Witness ==
  \E e \in ExecIds :
    /\ Exists(e) /\ store[e].status = Completed
    /\ ~Finishing(e)
    /\ th[HandlerThread].pc = "idle"
    /\ store[e].graph = "chain"
    /\ e \notin executions
    /\ ctxState[e] = "canceled"

(***************************************************************************)
(* C20: in every stored record the node states are those of the nodes of   *)
(* the graph: a new record has one Pending state for each node, and no     *)
(* write of a record adds or removes a node state.                         *)
(***************************************************************************)
C20_NodeStatesOfGraphNodes ==
  [][ \A e \in ExecIds :
        store'[e] # NoRecord =>
          /\ DOMAIN store'[e].nodes = NodeIds(GraphOf(store'[e]))
          /\ ~Exists(e) => AllPending(store'[e])
          /\ Exists(e) => DOMAIN store'[e].nodes = DOMAIN store[e].nodes ]_vars

\* a record written by Submit, by a completion and by a dispatch
C20_Witness ==
  \E e \in ExecIds :
    /\ Exists(e)
    /\ store[e].graph = "routed"
    /\ store[e].nodes[A].status = Completed
    /\ store[e].nodes[C].status = Running
    /\ store[e].nodes[B].status = Pending
    /\ DOMAIN store[e].nodes = {A, B, C}

(***************************************************************************)
(* C21: when the dispatch of the entry node fails in SubmitGraph (the      *)
(* publish of the work envelope fails, or there is no such node), the call *)
(* still returns the id without an error and the record stays Running; if  *)
(* the deadline has not passed by then, the supervisor makes it Failed.    *)
(***************************************************************************)
\* the node publishNodeWork ends at when called for the entry node: the
\* entry node itself, or the first successor of a start node
DispatchTarget(g) ==
  IF g.entry \notin NodeIds(g) THEN ""
  ELSE IF g.nodes[g.entry].type = "start" THEN findNextNode(g, g.entry)
  ELSE g.entry

NoWorkFor(e) == \A w \in BagToSet(work) : w.e # e

\* SubmitGraph got as far as publishNodeWork, has returned, and the node it
\* had to dispatch got no work envelope
DispatchFailed(e) ==
  LET g == GraphOf(store[e])
      n == DispatchTarget(g)
  IN /\ th[SubmitThread(e)].pc = "done"
     /\ th[MonitorThread(e)].pc # "idle"
     /\ Exists(e)
     /\ \/ g.entry \notin NodeIds(g)
        \/ n \in NodeIds(g) /\ g.nodes[n].type \in {"executor", "router"}
     /\ NoWorkFor(e)

SubmitFailed(thr) == thr.pc = "done" /\ thr.res # "ok"

C22_SubmitSurvivesEventFailure ==
  [][ \A e \in ExecIds :
        (th[SubmitThread(e)].pc = "s_event" /\ th'[SubmitThread(e)].pc # "s_event")
          => /\ ~SubmitFailed(th'[SubmitThread(e)])
             /\ e \in executions'
             /\ th'[MonitorThread(e)].pc = "wait" ]_vars

(***************************************************************************)
(* C23: Validate rejects every graph whose edges contain a directed cycle, *)
(* a self-loop included.                                                   *)
(***************************************************************************)
EdgePairs(g) == {<<g.edges[i].from, g.edges[i].to>> : i \in DOMAIN g.edges}

\* a walk along the edges that comes back to the node it started from
HasCycle(g) ==
  \E k \in 1 .. Cardinality(NodeIds(g)) :
    \E walk \in [1 .. k + 1 -> NodeIds(g)] :
      /\ walk[1] = walk[k + 1]
      /\ \A i \in 1 .. k : <<walk[i], walk[i + 1]>> \in EdgePairs(g)

C23_ValidateRejectsCycles ==
  (call.fn = "Validate" /\ call.done /\ HasCycle(call.g)) => call.result # ""

(***************************************************************************)
(* C24: when no completion names a next node, no node of an execution is   *)
(* dispatched twice, whether the edges of the graph form a cycle or not:   *)
(* no work envelope of a node is published a second time.                  *)
(***************************************************************************)
C24_NoNodeDispatchedTwice ==
  \A w \in BagToSet(work) : CopiesIn(w, work) <= 1

(***************************************************************************)
(* C25: for the graph start A -> executor B -> end C with entry A, when    *)
(* nothing fails: SubmitGraph publishes one work envelope, for B on        *)
(* executor.work, and no other is ever published; once the completion of   *)
(* B with an output has been handled the record is Completed and the node  *)
(* state of B holds the output.                                            *)
(***************************************************************************)
EnvelopeOfB(e) == [e |-> e, node |-> B, topic |-> TopicExecutorWork]

HandlerAtRest == th[HandlerThread].pc = "idle" /\ stream = <<>>

C25_LinearGraphRuns ==
  \A e \in ExecIds :
    (Exists(e) /\ store[e].graph = "linear") =>
      /\ \A w \in BagToSet(work) : w.e = e => (w = EnvelopeOfB(e) /\ CopiesIn(w, work) = 1)
      /\ SubmitReturned(e) => EnvelopeOfB(e) \in BagToSet(work)
      /\ (HandlerAtRest /\ store[e].nodes[B].status = Completed)
           => /\ store[e].status = Completed
              /\ store[e].nodes[B].output = "hi"

C25_Witness ==
  \E e \in ExecIds :
    /\ Exists(e) /\ store[e].graph = "linear"
    /\ SubmitReturned(e)
    /\ HandlerAtRest
    /\ used = 1
    /\ store[e].status = Completed
    /\ store[e].nodes[B].status = Completed
    /\ store[e].nodes[B].output = "hi"
    /\ work = SetToBag({EnvelopeOfB(e)})

(***************************************************************************)
(* C26: dispatch is decided by the type of the node.  publishNodeWork for  *)
(* an executor publishes one work envelope on executor.work, for a router  *)
(* one on router.work (none when the bus fails); for an end node it        *)
(* publishes none and completes the graph; for a start node it publishes   *)
(* none and goes on with the successor findNextNode gives.  No work        *)
(* envelope is on a topic other than that of the type of its node.         *)
(***************************************************************************)
TopicForType(type) ==
  IF type = "executor" THEN TopicExecutorWork
  ELSE IF type = "router" THEN TopicRouterWork
  ELSE "none"

NodeType(thr) == GraphOf(thr.state).nodes[thr.node].type

C26_DispatchByNodeType ==
  [][ /\ \A t \in Threads :
           (th[t].pc = "pnw_save" /\ th'[t] # th[t]) =>
             /\ work' = work
             /\ NodeType(th[t]) \in {"executor", "router"} =>
                  (th'[t].pc = "pnw_publish" /\ th'[t].node = th[t].node)
             /\ NodeType(th[t]) = "end" =>
                  (th'[t].pc = "cg_save" /\ th'[t].state.status = Completed)
             /\ NodeType(th[t]) = "start" =>
                  LET nextNode == findNextNode(GraphOf(th[t].state), th[t].node)
                  IN IF nextNode = "" THEN th'[t].pc \in {"idle", "done"}
                     ELSE th'[t].pc = "pnw_save" /\ th'[t].node = nextNode
      /\ \A t \in Threads :
           (th[t].pc = "pnw_publish" /\ th'[t] # th[t]) =>
             \/ work' = work
             \/ work' = work (+) SetToBag({[e |-> th[t].e, node |-> th[t].node,
                                            topic |-> TopicForType(NodeType(th[t]))]})
      /\ \A w \in BagToSet(work') :
           w.topic = TopicForType(GraphOf(store'[w.e]).nodes[w.node].type) ]_vars

\* a router and an executor have their envelopes, each on its topic
C26_Witness ==
  \E e \in ExecIds :
    /\ Exists(e) /\ store[e].graph = "routed"
    /\ [e |-> e, node |-> A, topic |-> TopicRouterWork] \in BagToSet(work)
    /\ [e |-> e, node |-> C, topic |-> TopicExecutorWork] \in BagToSet(work)

(***************************************************************************)
(* C27: persist before publish.  When a work envelope for a node of an     *)
(* execution is published, the store holds a record of the execution in    *)
(* which that node is Running with started_at set; and nothing is          *)
(* published for an execution that has no record.                          *)
(***************************************************************************)
C27_PersistBeforePublish ==
  [][ /\ \A t \in Threads :
           (th[t].pc = "pnw_publish" /\ work' # work) =>
             /\ Exists(th[t].e)
             /\ store[th[t].e].nodes[th[t].node].status = Running
             /\ store[th[t].e].nodes[th[t].node].started_at
      /\ \A w \in BagToSet(work') : store'[w.e] # NoRecord
      /\ \A ev \in BagToSet(events') : store'[ev.e] # NoRecord ]_vars

(***************************************************************************)
(* C28: a CancelExecution that fails on the store (GetState or SaveState   *)
(* returns an error, as it does when the caller's deadline has expired)    *)
(* changes nothing: the tracked status is not Cancelled and the context    *)
(* of the supervisor of a tracked execution is not cancelled.              *)
(***************************************************************************)
CancelFailedOnStore(e) ==
  /\ th[CancelThread].pc = "idle"
  /\ th[CancelThread].e = e
  /\ th[CancelThread].res \in {"get_error", "save_error"}

C28_FailedCancelMutatesNothing ==
  \A e \in ExecIds :
    CancelFailedOnStore(e) =>
      /\ execStatus[e] # Cancelled
      /\ ~(e \in executions /\ ctxState[e] = "canceled")

(***************************************************************************)
(* C29: no lock is held across store or bus I/O: a goroutine that is at a  *)
(* call of the store or of the bus holds no executionContext.mu.           *)
(***************************************************************************)
AtStoreOrBusCall(t) ==
  th[t].pc \in {"s_event", "pnw_save", "pnw_publish", "cg_save", "cg_publish",
                "h_save", "c_load", "c_save", "c_publish", "t_load"}

C29_NoLockAcrossIO ==
  \A t \in Threads : AtStoreOrBusCall(t) => \A e \in ExecIds : mu[e] # t

(***************************************************************************)
(* C30: when the publish of the successor's work envelope fails in the     *)
(* completion handler, the handler returns an error, so that the reader    *)
(* does not acknowledge the message (processMessage acknowledges a message *)
(* when its handler has returned nil, events/doc.go:152-166).              *)
(***************************************************************************)
Acknowledges(thr) == thr.pc = "idle" /\ thr.res = "nil"

C30_FailedDispatchIsNotAcknowledged ==
  [][ \A t \in HandlerThreads :
        (th[t].pc = "pnw_publish" /\ th'[t].pc = "idle" /\ work' = work)
          => ~Acknowledges(th'[t]) ]_vars

(***************************************************************************)
(* C31: when the SaveState of the completion handler fails, the event is   *)
(* dropped: the handler returns without dispatching a successor and        *)
(* without completing or failing the graph, so it publishes nothing and    *)
(* writes no terminal status.                                              *)
(***************************************************************************)
HandlerSaveFailed(t) ==
  /\ th[t].pc = "h_save"
  /\ th'[t] # th[t]
  /\ used' = used + 1

C31_FailedSaveDropsEvent ==
  [][ \A t \in HandlerThreads :
        HandlerSaveFailed(t) =>
          /\ th'[t].pc = "idle"
          /\ store' = store /\ work' = work /\ events' = events ]_vars

(***************************************************************************)
(* C32: Validate is deterministic: two calls on the same graph return the  *)
(* same outcome and, when they reject it, the same error, of the same kind *)
(* and naming the same node or edge end, also for a graph with several     *)
(* invalid nodes.                                                          *)
(***************************************************************************)
C32_ValidateIsDeterministic ==
  (call.fn = "Validate twice" /\ call.done) => call.results[1] = call.results[2]

(***************************************************************************)
(* C33: the in-memory store isolates what it holds from its callers: what  *)
(* GetState finds under an id changes with a SaveState and with nothing    *)
(* else; changing a record that was saved, or one of its node states, or   *)
(* a record that GetState returned, leaves it as it is until the record is *)
(* saved.                                                                  *)
(***************************************************************************)
C33_SavedRecordsAreIsolated ==
  [][ mem'.states = mem.states =>
        \A e \in ExecIds : StoredRecord(mem', e) = StoredRecord(mem, e) ]_vars

(***************************************************************************)
(* C34: a completion handler that loaded the record before Cancel saved it *)
(* does not undo the cancellation: when the stored status is Cancelled and *)
(* the handler writes its copy, loaded while the record was Running, the   *)
(* stored status stays Cancelled.                                          *)
(***************************************************************************)
WritesStaleCopy(t) ==
  /\ th[t].pc \in {"h_save", "pnw_save"}
  /\ th[t].state.status = Running
  /\ store'[th[t].e] = th[t].state

C34_CancelSurvivesStaleHandler ==
  [][ \A t \in HandlerThreads :
        (WritesStaleCopy(t) /\ store[th[t].e].status = Cancelled)
          => store'[th[t].e].status = Cancelled ]_vars

(***************************************************************************)
(* C35: a stored record whose status is Completed has no node state that   *)
(* is Running: the nodes dispatched on the way, start and end nodes        *)
(* included, are Completed by then.                                        *)
(***************************************************************************)
HasRunningNode(state) == \E n \in DOMAIN state.nodes : state.nodes[n].status = Running

C35_CompletedHasNoRunningNode ==
  \A e \in ExecIds :
    (Exists(e) /\ store[e].status = Completed) => ~HasRunningNode(store[e])

(***************************************************************************)
(* C36: at most one terminal event (GraphCompleted, GraphFailed or         *)
(* GraphCancelled) is ever published on graph.events for one execution,    *)
(* whatever completions (duplicates included), Cancel calls and deadlines  *)
(* occur and however they interleave.                                      *)
(***************************************************************************)
TerminalEventTypes == {"graph.completed", "graph.failed", "graph.cancelled"}

TerminalEventsOf(e) ==
  LET terminal == {ev \in BagToSet(events) : ev.e = e /\ ev.type \in TerminalEventTypes}
  IN BagCardinality([ev \in terminal |-> events[ev]])

C36_OneTerminalEvent ==
  \A e \in ExecIds : TerminalEventsOf(e) <= 1

(***************************************************************************)
(* C37: dispatch terminates for every graph the validator admits: a        *)
(* SubmitGraph that has entered publishNodeWork returns, also when the     *)
(* first outgoing edge of a start node leads back to a start node.         *)
(***************************************************************************)
C37_DispatchTerminates ==
  \A e \in ExecIds :
    th[SubmitThread(e)].pc = "pnw_save" ~> th[SubmitThread(e)].pc = "done"

(***************************************************************************)
(* C38: SubmitGraph of an admitted graph that has no entry node, once the  *)
(* execution is registered, returns the id without an error and publishes  *)
(* no work envelope; the record stays Running with every node Pending, and *)
(* its status changes only when the supervisor writes Failed with          *)
(* "execution timeout" after the deadline or CancelExecution writes        *)
(* Cancelled.                                                              *)
(***************************************************************************)
HasNoEntry(state) == state # NoRecord /\ GraphOf(state).entry = ""

C38_NoEntryNodeWaitsForDeadline ==
  [][ \A e \in ExecIds :
        HasNoEntry(store'[e]) =>
          /\ \A w \in BagToSet(work') : w.e # e
          /\ AllPending(store'[e])
          /\ th'[MonitorThread(e)].pc # "idle" =>
               (th'[SubmitThread(e)].pc = "done" /\ th'[SubmitThread(e)].res = "ok")
          /\ (Exists(e) /\ store'[e].status # store[e].status) =>
               \/ /\ th[MonitorThread(e)].pc = "cg_save"
                  /\ ctxState[e] = "deadline"
                  /\ store'[e].status = Failed
                  /\ store'[e].error = "execution timeout"
               \/ /\ th[CancelThread].pc = "c_save"
                  /\ store'[e].status = Cancelled
          /\ ~Exists(e) => store'[e].status = Running ]_vars

\* an execution without entry node that the supervisor has failed
C38_Witness ==
  \E e \in ExecIds :
    /\ HasNoEntry(store[e])
    /\ th[SubmitThread(e)].pc = "done" /\ th[SubmitThread(e)].res = "ok"
    /\ AllPending(store[e])
    /\ store[e].status = Failed /\ store[e].error = "execution timeout"
    /\ work = EmptyBag

(***************************************************************************)
(* C39: dispatching a start node that has no outgoing edge drives the      *)
(* record to Completed, as a completion without successor does: once       *)
(* SubmitGraph of a graph whose entry is such a node has returned, the     *)
(* record is Completed.                                                    *)
(***************************************************************************)
EntryIsStartWithoutSuccessor(g) ==
  /\ g.entry \in NodeIds(g)
  /\ g.nodes[g.entry].type = "start"
  /\ findNextNode(g, g.entry) = ""

C39_StartWithoutSuccessorCompletes ==
  \A e \in ExecIds :
    (Exists(e) /\ EntryIsStartWithoutSuccessor(GraphOf(store[e])) /\ SubmitReturned(e))
      => store[e].status = Completed

(***************************************************************************)
(* C40: for any sequence of calls of Start and Stop on a HealthMonitor no  *)
(* call panics (stopCh is closed at most once), and whenever running is    *)
(* true a monitoring loop is active and stays so until the next Stop: the  *)
(* channel that ends the loop is open.                                     *)
(***************************************************************************)
C40_StartStopIsSafe ==
  /\ ~hm.panicked
  /\ hm.running => (hm.loops > 0 /\ hm.stopCh = "open")

=============================================================================
